---- MODULE Spec2Model ----
(***************************************************************************)
(* Model of the so-scrapper persistence pipeline (src/mariadb_crud.py), of   *)
(* the scrape-and-store wrapper (src/scraper_mariadb.py), of the collector *)
(* and its text normalizer (src/unified_scraper.py) and of the parallel    *)
(* page fetch (src/bs4scraper.py).                                         *)
(*                                                                         *)
(* The relational store is the four tables of MariaDBCRUD._create_tables.  *)
(* A table is the sequence of its rows in insertion order; the columns the *)
(* code only writes and never reads back (timestamps, publication_date,    *)
(* scrape_method) are left out.  One connection is used, by one sequential *)
(* caller, so a call runs to completion before the next one starts; the    *)
(* loop of create_questions_batch is unrolled one record per step, its     *)
(* argument list being revealed as the loop reads it.                      *)
(*                                                                         *)
(* Persistence failures are an input: fault = k makes the k-th statement   *)
(* after the link lookup of create_question raise (1 = author resolve,     *)
(* 2 = question insert, 3/4 = first tag resolve / junction insert, 5/6 =   *)
(* second tag), fault = 0 is a run without failure.  The lookups by link   *)
(* themselves are taken to succeed.  AUTO_INCREMENT hands out ids from a   *)
(* per-table counter; the gap a rolled-back insert leaves in the ids is    *)
(* not modelled.                                                           *)
(*                                                                         *)
(* The site is an input of the collector: a source is the sequence of what *)
(* the requests for its list pages meet, a failed fetch or a page with its *)
(* items.  A strategy runs one iteration of its while loop per step.  In   *)
(* the browser strategy the wait for the first question summary succeeds   *)
(* when the page shows one and times out when it shows none.  What the    *)
(* request for an item's question page meets is part of the item.          *)
(*                                                                         *)
(* In the parallel fetch the worker threads take the page tasks in the     *)
(* order of submission, each runs scrape_page to its end in one step, and  *)
(* the calling thread collects the finished futures in any order.          *)
(*                                                                         *)
(* The normalizer is a function of the parsed markup: a sequence of        *)
(* elements with their text, a text being the sequence of its characters.  *)
(***************************************************************************)
EXTENDS Integers, Sequences, FiniteSets, TLC

VARIABLES db, autoinc, pc, fn, avoid_duplicates, outcomes, created_ids,
          skipped_count, result, pending, prev

\* the collector (src/unified_scraper.py): one call of scrape_questions
VARIABLES method, entry, num_questions, source, questions_data, page, cpc,
          fetched, driver, error, scraped, details, current_url, sessions,
          cyclic, methods

\* the parallel page fetch (src/bs4scraper.py)
VARIABLES max_pages, max_workers, web, futures, all_questions, ppc

\* the text normalizer (StackOverflowScraper._clean_html_text)
VARIABLES html_text, cleaned, npc

storeVars == <<db, autoinc, pc, fn, avoid_duplicates, outcomes, created_ids,
               skipped_count, result, pending, prev>>
collectVars == <<method, entry, num_questions, source, questions_data, page,
                 cpc, fetched, driver, error, scraped, details, current_url,
                 sessions, cyclic, methods>>
parallelVars == <<max_pages, max_workers, web, futures, all_questions, ppc>>
normalizeVars == <<html_text, cleaned, npc>>
scrapeVars == <<collectVars, parallelVars, normalizeVars>>

vars == <<storeVars, scrapeVars>>

---------------------------------------------------------------------------
(* Bounds and input domains *)

MaxBatch == 2

None == -1

Links == {"L1", "L2"}
Faults == 0..6

\* the shapes a scraped record takes here: two versions of the page content,
\* the same author seen with different reputations, repeated and shared tags
Shapes ==
  { [title |-> "T1", text |-> "X1", tags |-> <<"x", "y">>,
     author_name |-> "A", author_reputation |-> 100],
    [title |-> "T2", text |-> "X2", tags |-> <<"x", "x">>,
     author_name |-> "A", author_reputation |-> 200],
    [title |-> "T1", text |-> "X1", tags |-> <<"y">>,
     author_name |-> "A", author_reputation |-> 0],
    [title |-> "T2", text |-> "X2", tags |-> <<>>,
     author_name |-> "B", author_reputation |-> None] }

Records(shapes, links) ==
  {[title |-> c.title, link |-> l, text |-> c.text, tags |-> c.tags,
    author_name |-> c.author_name,
    author_reputation |-> c.author_reputation] : c \in shapes, l \in links}

QuestionData == Records(Shapes, Links)

\* a wider set of links with fewer shapes, for the runs that need three links
WideLinks == {"L1", "L2", "L3"}
WideData ==
  Records({c \in Shapes : c.author_reputation \in {100, 200}}, WideLinks)

---------------------------------------------------------------------------
(* The store *)

EmptyDB == [authors |-> <<>>, tags |-> <<>>, questions |-> <<>>,
            question_tags |-> <<>>]

InitAutoinc == [authors |-> 1, tags |-> 1, questions |-> 1]

Range(s) == {s[i] : i \in 1..Len(s)}

\* python truthiness of an Optional[int]: None and 0 are falsy
Truthy(reputation) == reputation # None /\ reputation # 0

\* (mutant) the lookup compares the wrong column
QuestionsWithLink_title(questions, link) ==
  {i \in 1..Len(questions) : questions[i].title = link}

\* the index on questions.link, used by "WHERE link = %s" and by UNIQUE
QuestionsWithLink(questions, link) ==
  {i \in 1..Len(questions) : questions[i].link = link}

\* (mutant) the lookup by tag name never matches
TagsWithName_miss(tags, name) == {}

\* the index on tags.name, used by "WHERE name = %s" and by UNIQUE
TagsWithName(tags, name) == {i \in 1..Len(tags) : tags[i].name = name}

\* SELECT id, reputation FROM authors WHERE name = %s
AuthorsWithName(authors, name) ==
  {i \in 1..Len(authors) : authors[i].name = name}

Min(S) == CHOOSE x \in S : \A y \in S : x <= y

\* a statement's outcome: the session after it, whether it raised, lastrowid
Ok(s, id) == [s |-> s, ok |-> TRUE, id |-> id]
Err(s) == [s |-> s, ok |-> FALSE, id |-> 0]

\* INSERT INTO questions (...): AUTO_INCREMENT id, link UNIQUE
InsertQuestion(s, question_data, author_id) ==
  LET id == s.autoinc.questions
      s1 == [s EXCEPT !.autoinc.questions = id + 1]
  IN IF QuestionsWithLink(s.db.questions, question_data.link) # {}
     THEN Err(s1)
     ELSE Ok([s1 EXCEPT !.db.questions =
                 Append(@, [id |-> id, title |-> question_data.title,
                            link |-> question_data.link,
                            text |-> question_data.text,
                            author_id |-> author_id])], id)

\* INSERT INTO tags (name): AUTO_INCREMENT id, name UNIQUE
InsertTag(s, tag_name) ==
  LET id == s.autoinc.tags
      s1 == [s EXCEPT !.autoinc.tags = id + 1]
  IN IF TagsWithName(s.db.tags, tag_name) # {}
     THEN Err(s1)
     ELSE Ok([s1 EXCEPT !.db.tags = Append(@, [id |-> id, name |-> tag_name])],
             id)

\* (mutant) a plain INSERT: the PRIMARY KEY (question_id, tag_id) raises on a
\* pair that is already there
InsertQuestionTag(s, question_id, tag_id) ==
  LET row == [question_id |-> question_id, tag_id |-> tag_id]
  IN IF row \in Range(s.db.question_tags)
     THEN Err(s)
     ELSE Ok([s EXCEPT !.db.question_tags = Append(@, row)], 0)

\* INSERT IGNORE INTO question_tags: a duplicate key is skipped, not raised
InsertIgnoreQuestionTag(s, question_id, tag_id) ==
  LET row == [question_id |-> question_id, tag_id |-> tag_id]
  IN IF row \in Range(s.db.question_tags)
     THEN Ok(s, 0)
     ELSE Ok([s EXCEPT !.db.question_tags = Append(@, row)], 0)

_get_or_create_author(s, name, reputation) ==
  LET found == AuthorsWithName(s.db.authors, name)
  IN IF found # {}
     THEN LET i == Min(found)
              author_id == s.db.authors[i].id
              current_rep == s.db.authors[i].reputation
          IN IF Truthy(reputation) /\ current_rep # reputation
             THEN Ok([s EXCEPT !.db.authors[i].reputation = reputation],
                     author_id)
             ELSE Ok(s, author_id)
     ELSE LET id == s.autoinc.authors
          IN Ok([s EXCEPT !.autoinc.authors = id + 1,
                          !.db.authors = Append(@, [id |-> id, name |-> name,
                                            reputation |-> reputation])], id)

_get_or_create_tag(s, tag_name) ==
  LET found == TagsWithName(s.db.tags, tag_name)
  IN IF found # {}
     THEN Ok(s, s.db.tags[Min(found)].id)
     ELSE InsertTag(s, tag_name)

\* (mutant) the rollback is lost: the writes made so far stay
Rollback_lost(committed, working) == working

\* connection.commit() / connection.rollback() of the one open transaction
Commit(committed, working) == working
Rollback(committed, working) == committed

\* the "for tag_name in question_data.tags" loop of create_question
RECURSIVE HandleTags(_, _, _, _, _)
HandleTags(s, question_id, tag_list, i, fault) ==
  IF i > Len(tag_list) THEN Ok(s, question_id)
  ELSE LET t == IF fault = 2 * i + 1 THEN Err(s)
                ELSE _get_or_create_tag(s, tag_list[i])
       IN IF ~t.ok THEN t
          ELSE LET j == IF fault = 2 * i + 2 THEN Err(t.s)
                        ELSE InsertIgnoreQuestionTag(t.s, question_id, t.id)
               IN IF ~j.ok THEN j
                  ELSE HandleTags(j.s, question_id, tag_list, i + 1, fault)

\* what a call hands back: the store, the counters, and its return or raise
Returned(d, ai, id) == [db |-> d, autoinc |-> ai, status |-> "ok", id |-> id]
Raised(d, ai, exc) == [db |-> d, autoinc |-> ai, status |-> exc, id |-> 0]

create_question(s, question_data, fault) ==
  IF QuestionsWithLink(s.db.questions, question_data.link) # {}
  THEN Raised(Rollback(s.db, s.db), s.autoinc, "ValueError")
  ELSE
    LET a == IF fault = 1 THEN Err(s)
             ELSE _get_or_create_author(s, question_data.author_name,
                                        question_data.author_reputation)
    IN IF ~a.ok THEN Raised(Rollback(s.db, a.s.db), s.autoinc, "Exception")
       ELSE
         LET q == IF fault = 2 THEN Err(a.s)
                  ELSE InsertQuestion(a.s, question_data, a.id)
         IN IF ~q.ok
            THEN Raised(Rollback(s.db, q.s.db), s.autoinc, "Exception")
            ELSE
              LET t == HandleTags(q.s, q.id, question_data.tags, 1, fault)
              IN IF ~t.ok
                 THEN Raised(Rollback(s.db, t.s.db), s.autoinc, "Exception")
                 ELSE Returned(Commit(s.db, t.s.db), t.s.autoinc, q.id)

\* (mutant) no lookup first: an existing link raises out of create_question
create_question_if_not_exists_nolookup(s, question_data, fault) ==
  create_question(s, question_data, fault)

\* (mutant) an existing question is refreshed from the new record
create_question_if_not_exists_upsert(s, question_data, fault) ==
  LET existing == {i \in 1..Len(s.db.questions) :
                     s.db.questions[i].link = question_data.link}
      i == CHOOSE i \in existing : TRUE
  IN IF existing # {}
     THEN [db |-> [s.db EXCEPT !.questions[i].title = question_data.title,
                               !.questions[i].text = question_data.text],
           autoinc |-> s.autoinc, status |-> "existing",
           id |-> s.db.questions[i].id]
     ELSE create_question(s, question_data, fault)

\* returns (question_id, created_flag): status "ok" created, "existing" not
create_question_if_not_exists(s, question_data, fault) ==
  LET existing == QuestionsWithLink(s.db.questions, question_data.link)
  IN IF existing # {}
     THEN [db |-> s.db, autoinc |-> s.autoinc, status |-> "existing",
           id |-> s.db.questions[Min(existing)].id]
     ELSE create_question(s, question_data, fault)

---------------------------------------------------------------------------
(* Calls *)

NoResult == [kind |-> "none", ids |-> <<>>, success |-> FALSE,
             scraped_count |-> 0, stored_count |-> 0,
             duplicates_skipped |-> 0]
NoPrev == [active |-> FALSE, n |-> 0, failed |-> 0, db |-> EmptyDB]

Session == [db |-> db, autoinc |-> autoinc]

Last(s) == s[Len(s)]

\* one record's entry in the history of the call
Outcome(question_data, fault, r) ==
  [rec |-> question_data, status |-> r.status, id |-> r.id,
   faulted |-> fault # 0]

\* an injected fault is one that fires: a statement not executed cannot fail
FaultFires(fault, r) == fault = 0 \/ r.status = "Exception"

StoreInit ==
  /\ db = EmptyDB
  /\ autoinc = InitAutoinc
  /\ pc = "idle"
  /\ fn = "none"
  /\ avoid_duplicates = TRUE
  /\ outcomes = <<>>
  /\ created_ids = <<>>
  /\ skipped_count = 0
  /\ result = NoResult
  /\ pending = <<>>
  /\ prev = NoPrev

\* a direct call of MariaDBCRUD.create_question
CreateQuestion(D) ==
  \E question_data \in D, fault \in Faults :
    LET r == create_question(Session, question_data, fault)
    IN /\ pc = "idle"
       /\ FaultFires(fault, r)
       /\ db' = r.db
       /\ autoinc' = r.autoinc
       /\ fn' = "create_question"
       /\ outcomes' = <<Outcome(question_data, fault, r)>>
       /\ created_ids' = <<>>
       /\ skipped_count' = 0
       /\ result' = [NoResult EXCEPT
                       !.kind = IF r.status = "ok" THEN "return" ELSE "raise",
                       !.ids = IF r.status = "ok" THEN <<r.id>> ELSE <<>>]
       /\ prev' = NoPrev
       /\ UNCHANGED <<pc, avoid_duplicates, pending>>
       /\ UNCHANGED scrapeVars

\* a direct call of MariaDBCRUD.create_question_if_not_exists
CreateQuestionIfNotExists(D) ==
  \E question_data \in D, fault \in Faults :
    LET r == create_question_if_not_exists(Session, question_data, fault)
        returns == r.status \in {"ok", "existing"}
    IN /\ pc = "idle"
       /\ FaultFires(fault, r)
       /\ db' = r.db
       /\ autoinc' = r.autoinc
       /\ fn' = "create_question_if_not_exists"
       /\ outcomes' = <<Outcome(question_data, fault, r)>>
       /\ created_ids' = <<>>
       /\ skipped_count' = 0
       /\ result' = [NoResult EXCEPT
                       !.kind = IF returns THEN "return" ELSE "raise",
                       !.ids = IF returns THEN <<r.id>> ELSE <<>>]
       /\ prev' = NoPrev
       /\ UNCHANGED <<pc, avoid_duplicates, pending>>
       /\ UNCHANGED scrapeVars

\* create_questions_batch is entered: created_ids = [], skipped_count = 0
BatchCall ==
  /\ pc = "idle"
  /\ pc' = "loop"
  /\ fn' = "create_questions_batch"
  /\ avoid_duplicates' = TRUE
  /\ outcomes' = <<>>
  /\ created_ids' = <<>>
  /\ skipped_count' = 0
  /\ result' = NoResult
  /\ pending' = <<>>
  /\ prev' = NoPrev
  /\ UNCHANGED <<db, autoinc>>
  /\ UNCHANGED scrapeVars

\* create_questions_batch is called again with the list it was just given
BatchAgain ==
  /\ pc = "idle"
  /\ fn = "create_questions_batch"
  /\ ~prev.active
  /\ pc' = "loop"
  /\ pending' = [i \in 1..Len(outcomes) |-> outcomes[i].rec]
  /\ prev' = [active |-> TRUE, n |-> Len(outcomes),
              failed |-> Cardinality({i \in 1..Len(outcomes) :
                                        outcomes[i].status = "Exception"}),
              db |-> db]
  /\ outcomes' = <<>>
  /\ created_ids' = <<>>
  /\ skipped_count' = 0
  /\ result' = NoResult
  /\ UNCHANGED <<db, autoinc, fn, avoid_duplicates>>
  /\ UNCHANGED scrapeVars

\* the records the loop can read next: the rest of a list given before, or
\* any record while the list is shorter than MaxBatch
NextRecords(D) ==
  IF prev.active
  THEN IF pending = <<>> THEN {} ELSE {Head(pending)}
  ELSE IF Len(outcomes) < MaxBatch THEN D ELSE {}

\* (mutant) no try/except: a record's exception leaves the loop
batch_handle_raise(r, ids, skipped) ==
  IF r.status = "ok"
  THEN [pc |-> "loop", created_ids |-> Append(ids, r.id),
        skipped_count |-> skipped]
  ELSE IF r.status = "existing"
  THEN [pc |-> "loop", created_ids |-> ids, skipped_count |-> skipped + 1]
  ELSE [pc |-> "raised", created_ids |-> ids, skipped_count |-> skipped]

\* (mutant) the id of an existing question is appended as well
batch_handle_all(r, ids, skipped) ==
  IF r.status = "ok"
  THEN [pc |-> "loop", created_ids |-> Append(ids, r.id),
        skipped_count |-> skipped]
  ELSE IF r.status = "existing"
  THEN [pc |-> "loop", created_ids |-> Append(ids, r.id),
        skipped_count |-> skipped + 1]
  ELSE [pc |-> "loop", created_ids |-> ids, skipped_count |-> skipped]

\* the try/except of the loop body of create_questions_batch: what it makes
\* of one record's create_question_if_not_exists
batch_handle(r, ids, skipped) ==
  IF r.status = "ok"
  THEN [pc |-> "loop", created_ids |-> Append(ids, r.id),
        skipped_count |-> skipped]
  ELSE IF r.status = "existing"
  THEN [pc |-> "loop", created_ids |-> ids, skipped_count |-> skipped + 1]
  ELSE [pc |-> "loop", created_ids |-> ids, skipped_count |-> skipped]

\* the try/except of the loop body of scrape_and_store, avoid_duplicates
\* False: what it makes of one record's create_question
store_handle(r, ids, skipped) ==
  IF r.status = "ok"
  THEN [pc |-> "loop", created_ids |-> Append(ids, r.id),
        skipped_count |-> skipped]
  ELSE IF r.status = "ValueError"
  THEN [pc |-> "loop", created_ids |-> ids, skipped_count |-> skipped + 1]
  ELSE [pc |-> "loop", created_ids |-> ids, skipped_count |-> skipped]

\* one iteration of the loop of create_questions_batch, called directly or
\* by scrape_and_store
BatchRecord(D) ==
  \E question_data \in NextRecords(D), fault \in Faults :
    LET r == create_question_if_not_exists(Session, question_data, fault)
        h == batch_handle(r, created_ids, skipped_count)
    IN /\ pc = "loop"
       /\ \/ fn = "create_questions_batch"
          \/ fn = "scrape_and_store" /\ avoid_duplicates
       /\ FaultFires(fault, r)
       /\ db' = r.db
       /\ autoinc' = r.autoinc
       /\ outcomes' = Append(outcomes, Outcome(question_data, fault, r))
       /\ pc' = h.pc
       /\ created_ids' = h.created_ids
       /\ skipped_count' = h.skipped_count
       /\ pending' = IF prev.active THEN Tail(pending) ELSE pending
       /\ result' = IF h.pc = "raised"
                    THEN [NoResult EXCEPT !.kind = "raise"] ELSE result
       /\ UNCHANGED <<fn, avoid_duplicates, prev>>
       /\ UNCHANGED scrapeVars

\* the list is exhausted: the counts are printed, created_ids is returned
BatchReturn ==
  /\ pc = "loop"
  /\ fn = "create_questions_batch"
  /\ pending = <<>>
  /\ pc' = "idle"
  /\ result' = [NoResult EXCEPT !.kind = "return", !.ids = created_ids,
                                !.duplicates_skipped = skipped_count]
  /\ UNCHANGED <<db, autoinc, fn, avoid_duplicates, outcomes, created_ids,
                 skipped_count, pending, prev>>
  /\ UNCHANGED scrapeVars

\* scrape_and_store is entered; the scraped list is read by the store loop
ScrapeAndStoreCall ==
  \E avoid \in BOOLEAN :
    /\ pc = "idle"
    /\ pc' = "loop"
    /\ fn' = "scrape_and_store"
    /\ avoid_duplicates' = avoid
    /\ outcomes' = <<>>
    /\ created_ids' = <<>>
    /\ skipped_count' = 0
    /\ result' = NoResult
    /\ pending' = <<>>
    /\ prev' = NoPrev
    /\ UNCHANGED <<db, autoinc>>
    /\ UNCHANGED scrapeVars

\* one iteration of "for question in questions" of scrape_and_store
StoreRecord(D) ==
  \E question_data \in NextRecords(D), fault \in Faults :
    LET r == create_question(Session, question_data, fault)
        h == store_handle(r, created_ids, skipped_count)
    IN /\ pc = "loop"
       /\ fn = "scrape_and_store"
       /\ ~avoid_duplicates
       /\ FaultFires(fault, r)
       /\ db' = r.db
       /\ autoinc' = r.autoinc
       /\ outcomes' = Append(outcomes, Outcome(question_data, fault, r))
       /\ pc' = h.pc
       /\ created_ids' = h.created_ids
       /\ skipped_count' = h.skipped_count
       /\ UNCHANGED <<fn, avoid_duplicates, result, pending, prev>>
       /\ UNCHANGED scrapeVars

\* the summary scrape_and_store returns
Summary(questions, stored_ids, skipped, avoid) ==
  IF Len(questions) = 0
  THEN [NoResult EXCEPT !.kind = "return"]
  ELSE [kind |-> "return", ids |-> stored_ids, success |-> TRUE,
        scraped_count |-> Len(questions),
        stored_count |-> Len(stored_ids),
        duplicates_skipped |-> IF avoid
                               THEN Len(questions) - Len(stored_ids)
                               ELSE skipped]

ScrapeAndStoreReturn ==
  /\ pc = "loop"
  /\ fn = "scrape_and_store"
  /\ pc' = "idle"
  /\ result' = Summary(outcomes, created_ids, skipped_count, avoid_duplicates)
  /\ UNCHANGED <<db, autoinc, fn, avoid_duplicates, outcomes, created_ids,
                 skipped_count, pending, prev>>
  /\ UNCHANGED scrapeVars

---------------------------------------------------------------------------
(* Deleting questions: delete_question, delete_questions_by_author and     *)
(* delete_old_questions                                                    *)

\* the highest question id the runs with deletions hand out
MaxQuestionId == 3

\* the records of the runs with deletions: two authors, with and without tags
DeleteData ==
  Records({c \in Shapes : c.author_reputation \in {100, None}}, Links)

\* (mutant) question_tags has no ON DELETE CASCADE: the junction rows stay
DeleteQuestions_nocascade(d, ids) ==
  LET Stays(q) == q.id \notin ids
  IN [d EXCEPT !.questions = SelectSeq(@, Stays)]

\* DELETE ... FROM questions for the rows with the ids given: the foreign key
\* question_tags.question_id is ON DELETE CASCADE; authors and tags are
\* referenced by questions, not the other way round
DeleteQuestions(d, ids) ==
  LET Stays(q) == q.id \notin ids
      Kept(r) == r.question_id \notin ids
  IN [d EXCEPT !.questions = SelectSeq(@, Stays),
               !.question_tags = SelectSeq(@, Kept)]

\* WHERE id = %s
delete_question(d, question_id) ==
  DeleteQuestions(d, {q.id : q \in {q \in Range(d.questions) :
                                     q.id = question_id}})

\* DELETE q FROM questions q JOIN authors a ON q.author_id = a.id
\* WHERE a.name = %s
delete_questions_by_author(d, author_name) ==
  DeleteQuestions(d,
    {q.id : q \in {q \in Range(d.questions) :
                     \E a \in Range(d.authors) :
                       a.id = q.author_id /\ a.name = author_name}})

\* WHERE scraped_at < DATE_SUB(NOW(), INTERVAL %s DAY): scraped_at is the
\* time of the insert, so the rows older than a point in time are the rows
\* inserted before some row
delete_old_questions(d, cutoff) ==
  DeleteQuestions(d, {q.id : q \in {q \in Range(d.questions) :
                                     q.id < cutoff}})

\* a delete call, between two other calls: the statement and the commit, or
\* with a failing statement the rollback and the exception
DeleteCall(name, deleted, fault) ==
  /\ db' = IF fault THEN Rollback(db, db) ELSE Commit(db, deleted)
  /\ fn' = name
  /\ outcomes' = <<>>
  /\ created_ids' = <<>>
  /\ skipped_count' = 0
  /\ result' = [NoResult EXCEPT !.kind = IF fault THEN "raise" ELSE "return"]
  /\ prev' = NoPrev
  /\ UNCHANGED <<autoinc, pc, avoid_duplicates, pending>>
  /\ UNCHANGED scrapeVars

DeleteQuestion ==
  /\ pc = "idle"
  /\ \E question_id \in 1..MaxQuestionId, fault \in BOOLEAN :
       DeleteCall("delete_question", delete_question(db, question_id), fault)

DeleteQuestionsByAuthor ==
  /\ pc = "idle"
  /\ \E author_name \in {"A", "B", "C"}, fault \in BOOLEAN :
       DeleteCall("delete_questions_by_author",
                  delete_questions_by_author(db, author_name), fault)

DeleteOldQuestions ==
  /\ pc = "idle"
  /\ \E cutoff \in 1..(MaxQuestionId + 1), fault \in BOOLEAN :
       DeleteCall("delete_old_questions", delete_old_questions(db, cutoff),
                  fault)

\* the create calls while question ids are left
CreateBounded ==
  /\ autoinc.questions <= MaxQuestionId
  /\ CreateQuestion(DeleteData)

BatchRecordBounded ==
  /\ autoinc.questions <= MaxQuestionId
  /\ BatchRecord(DeleteData)

---------------------------------------------------------------------------
(* The collector: StackOverflowScraper.scrape_questions and its strategies *)

MaxPages == 3
MaxTarget == 3
MaxCycle == 2

Methods == {"beautifulsoup", "selenium", "api"}
MethodNames == Methods \cup {"invalid_method"}

\* the item lists a list page carries.  "full" is an item with its title
\* anchor and href (API: with its title and link keys), "nohref" one whose
\* anchor has no href (API: no link key), "notitle" one without the title
\* anchor (API: no title key).  "broken" and "errorpage" are full items
\* whose question page cannot be had: the request for it fails (connection
\* error, timeout), or it is answered with a non-2xx status and an error
\* document that carries the elements looked for
ItemLists ==
  { <<"full">>, <<"full", "full">>, <<"notitle", "full">>,
    <<"full", "nohref">>, <<"broken", "full">>, <<"errorpage">> }

HasHref == {"full", "broken", "errorpage"}

FailedPage == [status |-> "fail", items |-> <<>>, has_more |-> FALSE]
EmptyPage == [status |-> "ok", items |-> <<>>, has_more |-> FALSE]

\* what a request for one list page can meet: a failed fetch, or a page with
\* its items; has_more is the flag of an API answer
Pages(m) ==
  {FailedPage, EmptyPage}
    \cup {[status |-> "ok", items |-> il, has_more |-> h] :
            il \in ItemLists,
            h \in IF m = "api" THEN BOOLEAN ELSE {TRUE}}

\* a source is its first pages; every page after them is empty
Sources(m) == UNION {[1..k -> Pages(m)] : k \in 0..MaxPages}

\* a source without end: its pages come again and again
EndlessSources(m) == UNION {[1..k -> Pages(m)] : k \in 1..MaxCycle}

PageAt(src, p) ==
  IF p <= Len(src) THEN src[p]
  ELSE IF cyclic /\ src # <<>> THEN src[((p - 1) % Len(src)) + 1]
  ELSE EmptyPage

TitleAt(p, i) == "t" \o ToString(p) \o "_" \o ToString(i)
HrefAt(p, i) == "/questions/" \o ToString(p) \o "_" \o ToString(i)
TextAt(p, i) == "x" \o ToString(p) \o "_" \o ToString(i)
BaseUrl == "https://stackoverflow.com"
ListUrl(p) == BaseUrl \o "/questions?page=" \o ToString(p) \o "&sort=newest"
NoTitle == "No Title"
NoneLink == "<None>"

\* a record as the strategies build it; tags and author name as the list
\* page gives them when nothing is found
ScrapedRecord(title, link, text, reputation) ==
  [title |-> title, link |-> link, text |-> text, tags |-> <<>>,
   author_name |-> "Unknown", author_reputation |-> reputation]

\* what requests.get(question_url) meets for an item: an exception (the
\* request fails, or the url is empty), or a response; the status of the
\* response is never looked at
DetailAnswer(kind) ==
  [raises |-> kind \notin {"full", "errorpage"},
   status_ok |-> kind = "full",
   found |-> kind \in {"full", "errorpage"}]

_get_question_text_bs4(answer, p, i) ==
  IF answer.raises THEN ""
  ELSE IF answer.found THEN TextAt(p, i) ELSE ""

_get_author_reputation_bs4(answer) ==
  IF answer.raises THEN None
  ELSE IF answer.found THEN 100 ELSE None

\* the body of "for q in questions" of _scrape_with_beautifulsoup: the
\* records one item appends
bs4_record(kind, p, i) ==
  <<ScrapedRecord(IF kind = "notitle" THEN NoTitle ELSE TitleAt(p, i),
                  IF kind \in HasHref THEN BaseUrl \o HrefAt(p, i) ELSE "",
                  _get_question_text_bs4(DetailAnswer(kind), p, i),
                  _get_author_reputation_bs4(DetailAnswer(kind)))>>

\* _get_question_text_selenium and _get_author_reputation_selenium: what the
\* lookup returns and where it leaves the browser.  driver.get(None) raises
\* before it navigates; a wait that times out is caught after the browser
\* has gone to the question page, and the way back is not taken; the status
\* of a page is not visible to the browser
selenium_visit(kind, p, i, url) ==
  IF kind = "nohref" THEN [found |-> FALSE, url |-> url]
  ELSE IF kind = "broken"
  THEN [found |-> FALSE, url |-> BaseUrl \o HrefAt(p, i)]
  ELSE [found |-> TRUE, url |-> url]

\* the body of "for q in questions" of _scrape_with_selenium: find_element
\* raises for a missing title anchor and the item is skipped; a missing href
\* attribute reads as None
selenium_record(kind, p, i) ==
  IF kind = "notitle"
  THEN <<>>
  ELSE LET found == selenium_visit(kind, p, i, "").found
       IN <<ScrapedRecord(TitleAt(p, i),
                          IF kind \in HasHref THEN BaseUrl \o HrefAt(p, i)
                                              ELSE NoneLink,
                          IF found THEN TextAt(p, i) ELSE "",
                          IF found THEN 100 ELSE None)>>

\* the body of "for item in data['items']" of _scrape_with_api: body and
\* owner come with the item
api_record(kind, p, i) ==
  <<ScrapedRecord(IF kind = "notitle" THEN NoTitle ELSE TitleAt(p, i),
                  IF kind = "nohref" THEN "" ELSE BaseUrl \o HrefAt(p, i),
                  TextAt(p, i), 100)>>

Extract(m, kind, p, i) ==
  CASE m = "beautifulsoup" -> bs4_record(kind, p, i)
    [] m = "selenium" -> selenium_record(kind, p, i)
    [] m = "api" -> api_record(kind, p, i)

\* the detail lookups one item issues: body text, then reputation
Lookups(m, kind, p, i) ==
  IF m = "api" \/ (m = "selenium" /\ kind = "notitle")
  THEN <<>>
  ELSE <<[page |-> p, item |-> i, what |-> "text"],
         [page |-> p, item |-> i, what |-> "reputation"]>>

\* the url of the browser after the two lookups of an item
UrlAfter(m, kind, p, i, url) ==
  IF m # "selenium" \/ kind = "notitle" THEN url
  ELSE selenium_visit(kind, p, i, selenium_visit(kind, p, i, url).url).url

\* (mutant) the loops stop one record short of the target
NeedMore_short(qs, n) == Len(qs) + 1 < n

\* len(questions_data) < num_questions, the condition of the while loops
NeedMore(qs, n) == Len(qs) < n

\* (mutant) the item loop has no break
Full_never(qs, n) == FALSE

\* len(questions_data) >= num_questions, the break of the item loops
Full(qs, n) == Len(qs) >= n

\* (mutant) a page's records are put in front of the ones collected so far
Accumulate_front(qs, recs) == recs \o qs

\* (mutant) the list is overwritten with the latest record
Accumulate_last(qs, recs) == recs

\* questions_data.append(question_data)
Accumulate(qs, recs) == qs \o recs

\* questions_data[:num_questions]
Slice(qs, n) == SubSeq(qs, 1, Min({Len(qs), n}))

\* the item loop of one page, from item i on; acc is what the run has so
\* far: its records, the detail lookups it issued, the url of its browser
RECURSIVE ItemLoop(_, _, _, _, _, _)
ItemLoop(m, acc, items, p, i, n) ==
  IF i > Len(items) \/ Full(acc.qs, n)
  THEN acc
  ELSE ItemLoop(m,
                [qs |-> Accumulate(acc.qs, Extract(m, items[i], p, i)),
                 details |-> acc.details \o Lookups(m, items[i], p, i),
                 url |-> UrlAfter(m, items[i], p, i, acc.url)],
                items, p, i + 1, n)

LoopOn(acc, p) ==
  [qs |-> acc.qs, details |-> acc.details, url |-> acc.url, page |-> p,
   cpc |-> "loop", error |-> ""]
Break(acc, p) ==
  [qs |-> acc.qs, details |-> acc.details, url |-> acc.url, page |-> p,
   cpc |-> "exit", error |-> ""]
Propagate(acc, p, exc) ==
  [qs |-> acc.qs, details |-> acc.details, url |-> acc.url, page |-> p,
   cpc |-> "raised", error |-> exc]

\* one iteration of the while loop of _scrape_with_beautifulsoup
bs4_page(acc, pg, p, n) ==
  IF pg.status # "ok" THEN Break(acc, p)
  ELSE IF pg.items = <<>> THEN Break(acc, p)
  ELSE LoopOn(ItemLoop("beautifulsoup", acc, pg.items, p, 1, n), p + 1)

\* one iteration of the while loop of _scrape_with_selenium: driver.get and
\* the wait for the first question summary stand outside any except clause
selenium_page(acc, pg, p, n) ==
  LET there == [acc EXCEPT !.url = ListUrl(p)]
  IN IF pg.status # "ok" THEN Propagate(acc, p, "WebDriverException")
     ELSE IF pg.items = <<>> THEN Propagate(there, p, "TimeoutException")
     ELSE LoopOn(ItemLoop("selenium", there, pg.items, p, 1, n), p + 1)

\* one iteration of the while loop of _scrape_with_api
api_page(acc, pg, p, n) ==
  IF pg.status # "ok" THEN Break(acc, p)
  ELSE IF pg.items = <<>> THEN Break(acc, p)
  ELSE LET got == ItemLoop("api", acc, pg.items, p, 1, n)
       IN IF ~pg.has_more THEN Break(got, p) ELSE LoopOn(got, p + 1)

\* (mutant) an unknown method name falls back to the default strategy
scrape_questions_fallback(m) ==
  IF m \in Methods THEN m ELSE "beautifulsoup"

\* the dispatch of scrape_questions: the strategy that runs, or the error
scrape_questions(m) ==
  IF m \in Methods THEN m ELSE "ValueError"

\* (mutant) driver.quit() is not in a finally clause
quit_never(sess) == sess

\* finally: driver.quit()
driver_quit(sess) == [sess EXCEPT !.closed = @ + 1]

\* create_questions_batch over the scraped list, no statement failing
RECURSIVE StoreAll(_, _, _)
StoreAll(s, questions, i) ==
  IF i > Len(questions)
  THEN s
  ELSE LET r == create_question_if_not_exists(s, questions[i], 0)
       IN StoreAll([db |-> r.db, autoinc |-> r.autoinc], questions, i + 1)

NoSessions == [opened |-> 0, closed |-> 0]

CollectIdle ==
  /\ method = ""
  /\ entry = ""
  /\ num_questions = 0
  /\ source = <<>>
  /\ questions_data = <<>>
  /\ page = 1
  /\ cpc = "idle"
  /\ fetched = <<>>
  /\ driver = "none"
  /\ error = ""
  /\ scraped = <<>>
  /\ details = <<>>
  /\ current_url = ""
  /\ sessions = NoSessions
  /\ cyclic = FALSE
  /\ methods = <<>>

\* scrape_questions(method, num_questions) is entered over the source src:
\* the dispatch, and for the browser strategy webdriver.Chrome(...)
Enter(m, n, src) ==
  LET strategy == scrape_questions(m)
  IN /\ method' = m
     /\ num_questions' = n
     /\ source' = src
     /\ questions_data' = <<>>
     /\ page' = 1
     /\ scraped' = <<>>
     /\ cpc' = IF strategy = "ValueError" THEN "raised" ELSE "loop"
     /\ error' = IF strategy = "ValueError" THEN "ValueError" ELSE ""
     /\ driver' = IF strategy = "selenium" THEN "open" ELSE "none"
     /\ sessions' = IF strategy = "selenium"
                    THEN [sessions EXCEPT !.opened = @ + 1]
                    ELSE sessions

\* scrape_questions is called, directly or by scrape_and_store; the source
\* the strategy will read is fixed here
ScrapeQuestions ==
  /\ cpc = "idle"
  /\ \E m \in MethodNames, e \in {"scrape_questions", "scrape_and_store"},
        n \in 0..MaxTarget :
       \E src \in Sources(m) :
         /\ Enter(m, n, src)
         /\ entry' = e
  /\ fetched' = <<>>
  /\ details' = <<>>
  /\ cyclic' = FALSE
  /\ UNCHANGED <<current_url, methods>>
  /\ UNCHANGED <<storeVars, parallelVars, normalizeVars>>

\* scrape_questions is called on a source without end
ScrapeEndless ==
  /\ cpc = "idle"
  /\ \E m \in {"beautifulsoup", "api"}, n \in 0..MaxTarget :
       \E src \in EndlessSources(m) :
         Enter(m, n, src)
  /\ entry' = "scrape_questions"
  /\ fetched' = <<>>
  /\ details' = <<>>
  /\ cyclic' = TRUE
  /\ UNCHANGED <<current_url, methods>>
  /\ UNCHANGED <<storeVars, parallelVars, normalizeVars>>

Accumulated ==
  [qs |-> questions_data, details |-> details, url |-> current_url]

Iterate(step) ==
  /\ questions_data' = step.qs
  /\ details' = step.details
  /\ current_url' = step.url
  /\ page' = step.page
  /\ cpc' = step.cpc
  /\ error' = step.error
  /\ fetched' = Append(fetched, page)
  /\ UNCHANGED <<method, entry, num_questions, source, scraped, cyclic,
                 methods>>
  /\ UNCHANGED <<storeVars, parallelVars, normalizeVars>>

Bs4Page ==
  /\ cpc = "loop"
  /\ scrape_questions(method) = "beautifulsoup"
  /\ NeedMore(questions_data, num_questions)
  /\ Iterate(bs4_page(Accumulated, PageAt(source, page), page,
                      num_questions))
  /\ UNCHANGED <<driver, sessions>>

\* an exception leaves the loop through "finally: driver.quit()"
SeleniumPage ==
  /\ cpc = "loop"
  /\ scrape_questions(method) = "selenium"
  /\ NeedMore(questions_data, num_questions)
  /\ LET step == selenium_page(Accumulated, PageAt(source, page), page,
                               num_questions)
     IN /\ Iterate(step)
        /\ driver' = IF step.cpc = "raised" THEN "quit" ELSE driver
        /\ sessions' = IF step.cpc = "raised" THEN driver_quit(sessions)
                       ELSE sessions

ApiPage ==
  /\ cpc = "loop"
  /\ scrape_questions(method) = "api"
  /\ NeedMore(questions_data, num_questions)
  /\ Iterate(api_page(Accumulated, PageAt(source, page), page,
                      num_questions))
  /\ UNCHANGED <<driver, sessions>>

\* the loop is left: the strategy returns questions_data[:num_questions],
\* the browser strategy through "finally: driver.quit()"
CollectReturn ==
  /\ \/ cpc = "exit"
     \/ cpc = "loop" /\ ~NeedMore(questions_data, num_questions)
  /\ cpc' = "done"
  /\ scraped' = Slice(questions_data, num_questions)
  /\ driver' = IF driver = "open" THEN "quit" ELSE driver
  /\ sessions' = IF driver = "open" THEN driver_quit(sessions) ELSE sessions
  /\ UNCHANGED <<method, entry, num_questions, source, questions_data, page,
                 fetched, error, details, current_url, cyclic, methods>>
  /\ UNCHANGED <<storeVars, parallelVars, normalizeVars>>

\* scrape_and_store hands the scraped list to create_questions_batch
StoreScraped ==
  /\ cpc = "done"
  /\ entry \in {"scrape_and_store", "batch_scrape_and_store"}
  /\ LET s == StoreAll(Session, scraped, 1)
     IN /\ db' = s.db
        /\ autoinc' = s.autoinc
  /\ cpc' = "stored"
  /\ UNCHANGED <<pc, fn, avoid_duplicates, outcomes, created_ids,
                 skipped_count, result, pending, prev>>
  /\ UNCHANGED <<method, entry, num_questions, source, questions_data, page,
                 fetched, driver, error, scraped, details, current_url,
                 sessions, cyclic, methods>>
  /\ UNCHANGED <<parallelVars, normalizeVars>>

\* the method lists of a batch run and the sources its methods read
MaxMethods == 2
MaxBatchPages == 1
MethodLists == UNION {[1..k -> MethodNames] : k \in 1..MaxMethods}
BatchSources(m) == UNION {[1..k -> Pages(m)] : k \in 0..MaxBatchPages}

\* batch_scrape_and_store(methods, num_questions_per_method) is called: the
\* loop over the methods calls scrape_and_store for the first of them
BatchScrapeAndStore ==
  /\ cpc = "idle"
  /\ \E ms \in MethodLists, n \in 0..MaxTarget :
       \E src \in BatchSources(ms[1]) :
         /\ Enter(ms[1], n, src)
         /\ methods' = Tail(ms)
  /\ entry' = "batch_scrape_and_store"
  /\ fetched' = <<>>
  /\ details' = <<>>
  /\ cyclic' = FALSE
  /\ UNCHANGED current_url
  /\ UNCHANGED <<storeVars, parallelVars, normalizeVars>>

\* scrape_and_store has returned for one method and the loop calls it for
\* the next; what was requested so far stays on record
BatchNextMethod ==
  /\ cpc = "stored"
  /\ entry = "batch_scrape_and_store"
  /\ methods # <<>>
  /\ \E src \in BatchSources(Head(methods)) :
       Enter(Head(methods), num_questions, src)
  /\ methods' = Tail(methods)
  /\ UNCHANGED <<entry, fetched, details, current_url, cyclic>>
  /\ UNCHANGED <<storeVars, parallelVars, normalizeVars>>

---------------------------------------------------------------------------
(* The parallel page fetch: src/bs4scraper.py *)

MaxParallelPages == 3
MaxWorkers == 2

\* "baddate" is an item whose <time> carries a datetime fromisoformat cannot
\* read, "nohref" one whose title anchor has no href
ParallelItemLists ==
  { <<>>, <<"full">>, <<"full", "full">>, <<"full", "baddate">>,
    <<"nohref", "full">> }

Unreadable == {"baddate", "nohref"}

WebPages ==
  {[status |-> "fail", items |-> <<>>]}
    \cup {[status |-> "ok", items |-> il] : il \in ParallelItemLists}

QuestionAt(p, i) == "s" \o ToString(p) \o "_" \o ToString(i)

\* the dict scrape_page appends for one item
page_record(kind, p, i) ==
  [title |-> IF kind = "notitle" THEN NoTitle ELSE TitleAt(p, i),
   link |-> IF kind = "notitle" THEN "" ELSE BaseUrl \o HrefAt(p, i),
   question |-> QuestionAt(p, i)]

TaskReturns(results) == [raised |-> FALSE, results |-> results]
TaskRaises == [raised |-> TRUE, results |-> <<>>]

\* the item loop of scrape_page, from item i on: an unreadable datetime
\* (ValueError) or a missing href (KeyError) raises out of the function, and
\* with it the page's records are lost
RECURSIVE page_results(_, _, _, _)
page_results(items, p, i, acc) ==
  IF i > Len(items) THEN TaskReturns(acc)
  ELSE IF items[i] \in Unreadable THEN TaskRaises
  ELSE page_results(items, p, i + 1,
                    Append(acc, page_record(items[i], p, i)))

\* (mutant) no try/except around the request: a failed fetch raises
scrape_page_raise(pg, p) ==
  IF pg.status # "ok" THEN TaskRaises
  ELSE page_results(pg.items, p, 1, <<>>)

\* scrape_page(page_num): a failed fetch returns the empty list
scrape_page(pg, p) ==
  IF pg.status # "ok" THEN TaskReturns(<<>>)
  ELSE page_results(pg.items, p, 1, <<>>)

\* (mutant) a page's records are merged into the list around the ones
\* already there
Extend_interleaved(all, results) ==
  IF results = <<>> THEN all
  ELSE <<Head(results)>> \o all \o Tail(results)

\* all_questions.extend(future.result())
Extend(all, results) == all \o results

PendingFuture ==
  [state |-> "pending", raised |-> FALSE, results |-> <<>>,
   yielded |-> FALSE]

ParallelIdle ==
  /\ max_pages = 0
  /\ max_workers = 0
  /\ web = <<>>
  /\ futures = <<>>
  /\ all_questions = <<>>
  /\ ppc = "idle"

\* scrape_stackoverflow_pages_parallel(max_pages, max_workers): one task is
\* submitted for each page 1..max_pages
ParallelCall ==
  /\ ppc = "idle"
  /\ \E mp \in 1..MaxParallelPages, w \in 1..MaxWorkers :
       \E pages \in [1..mp -> WebPages] :
         /\ max_pages' = mp
         /\ max_workers' = w
         /\ web' = pages
         /\ futures' = [p \in 1..mp |-> PendingFuture]
         /\ all_questions' = <<>>
         /\ ppc' = "collect"
  /\ UNCHANGED <<storeVars, collectVars, normalizeVars>>

Running == {p \in 1..max_pages : futures[p].state = "running"}
Waiting == {p \in 1..max_pages : futures[p].state = "pending"}

\* a free worker thread takes the oldest task of the executor's queue
WorkerStart ==
  \E p \in Waiting :
    /\ ppc = "collect"
    /\ Cardinality(Running) < max_workers
    /\ p = Min(Waiting)
    /\ futures' = [futures EXCEPT ![p].state = "running"]
    /\ UNCHANGED <<max_pages, max_workers, web, all_questions, ppc>>
    /\ UNCHANGED <<storeVars, collectVars, normalizeVars>>

\* a worker thread runs scrape_page to its end
WorkerFinish ==
  \E p \in Running :
    LET r == scrape_page(web[p], p)
    IN /\ futures' = [futures EXCEPT ![p].state = "finished",
                                     ![p].raised = r.raised,
                                     ![p].results = r.results]
       /\ UNCHANGED <<max_pages, max_workers, web, all_questions, ppc>>
       /\ UNCHANGED <<storeVars, collectVars, normalizeVars>>

\* as_completed yields a finished future to the calling thread; a raised
\* task is printed and adds nothing
Collect ==
  \E p \in 1..max_pages :
    /\ ppc = "collect"
    /\ futures[p].state = "finished"
    /\ ~futures[p].yielded
    /\ futures' = [futures EXCEPT ![p].yielded = TRUE]
    /\ all_questions' = IF futures[p].raised
                        THEN all_questions
                        ELSE Extend(all_questions, futures[p].results)
    /\ UNCHANGED <<max_pages, max_workers, web, ppc>>
    /\ UNCHANGED <<storeVars, collectVars, normalizeVars>>

\* every future was yielded: the executor is shut down, the list returned
ParallelReturn ==
  /\ ppc = "collect"
  /\ \A p \in 1..max_pages : futures[p].yielded
  /\ ppc' = "returned"
  /\ UNCHANGED <<max_pages, max_workers, web, futures, all_questions>>
  /\ UNCHANGED <<storeVars, collectVars, normalizeVars>>

---------------------------------------------------------------------------
(* The text normalizer: StackOverflowScraper._clean_html_text *)

MaxText == 3
MaxNodes == 2

\* a string is the sequence of its characters; Fence stands for the three
\* backquotes of a code fence, as one element
Fence == "<fence>"
Chars == {"a", " ", "\n"}
Whitespace == {" ", "\n", "\t"}

Texts == UNION {[1..k -> Chars] : k \in 0..MaxText}

\* markup as html.parser reads it: a sequence of elements, each with the
\* text it encloses; absent is the argument None
Elements == [tag : {"p", "code", "pre"}, text : Texts]
Markup ==
  {[absent |-> TRUE, nodes |-> <<>>]}
    \cup {[absent |-> FALSE, nodes |-> ns] :
            ns \in UNION {[1..k -> Elements] : k \in 0..MaxNodes}}

\* code.string = f"\n```\n{code.get_text()}\n```\n"
Fenced(text) == <<"\n", Fence, "\n">> \o text \o <<"\n", Fence, "\n">>

\* the strings of the tree after the code and pre elements were rewritten;
\* an element without text holds no string
RECURSIVE Strings(_, _)
Strings(nodes, i) ==
  IF i > Len(nodes) THEN <<>>
  ELSE LET node == nodes[i]
           here == IF node.tag \in {"code", "pre"} THEN <<Fenced(node.text)>>
                   ELSE IF node.text = <<>> THEN <<>>
                   ELSE <<node.text>>
       IN here \o Strings(nodes, i + 1)

\* soup.get_text(separator=' ')
RECURSIVE get_text(_, _)
get_text(strings, i) ==
  IF i > Len(strings) THEN <<>>
  ELSE IF i = Len(strings) THEN strings[i]
  ELSE strings[i] \o <<" ">> \o get_text(strings, i + 1)

\* re.sub(r'\s+', ' ', text): every run of whitespace, line breaks included,
\* becomes one space
CollapseSpace(text) ==
  LET RECURSIVE Pick(_)
      Pick(i) == IF i > Len(text) THEN <<>>
                 ELSE IF text[i] \notin Whitespace
                 THEN <<text[i]>> \o Pick(i + 1)
                 ELSE IF i > 1 /\ text[i - 1] \in Whitespace
                 THEN Pick(i + 1)
                 ELSE <<" ">> \o Pick(i + 1)
  IN Pick(1)

\* the end of the run of whitespace that starts at i
RECURSIVE RunEnd(_, _)
RunEnd(text, i) ==
  IF i < Len(text) /\ text[i + 1] \in Whitespace
  THEN RunEnd(text, i + 1) ELSE i

\* re.sub(r'\n\s*\n', '\n\n', text): from a line break to the last line
\* break of the same run of whitespace
CollapseBlank(text) ==
  LET RECURSIVE Scan(_)
      Scan(i) ==
        IF i > Len(text) THEN <<>>
        ELSE LET ends == {j \in (i + 1)..RunEnd(text, i) : text[j] = "\n"}
             IN IF text[i] = "\n" /\ ends # {}
                THEN <<"\n", "\n">>
                       \o Scan((CHOOSE j \in ends : \A k \in ends : k <= j)
                               + 1)
                ELSE <<text[i]>> \o Scan(i + 1)
  IN Scan(1)

\* text.strip()
Strip(text) ==
  LET solid == {i \in 1..Len(text) : text[i] \notin Whitespace}
  IN IF solid = {} THEN <<>>
     ELSE SubSeq(text, Min(solid),
                 CHOOSE j \in solid : \A k \in solid : k <= j)

_clean_html_text(input) ==
  IF input.absent \/ input.nodes = <<>>
  THEN <<>>
  ELSE Strip(CollapseBlank(CollapseSpace(
         get_text(Strings(input.nodes, 1), 1))))

NormalizeIdle ==
  /\ html_text = [absent |-> TRUE, nodes |-> <<>>]
  /\ cleaned = <<>>
  /\ npc = "idle"

CleanHtmlText ==
  /\ npc = "idle"
  /\ cleaned' = _clean_html_text(html_text)
  /\ npc' = "done"
  /\ UNCHANGED html_text
  /\ UNCHANGED <<storeVars, collectVars, parallelVars>>

---------------------------------------------------------------------------
(* Specifications *)

Init ==
  /\ StoreInit
  /\ CollectIdle
  /\ ParallelIdle
  /\ NormalizeIdle

Next ==
  \/ CreateQuestion(QuestionData)
  \/ CreateQuestionIfNotExists(QuestionData)
  \/ BatchCall
  \/ BatchAgain
  \/ BatchRecord(QuestionData)
  \/ BatchReturn
  \/ ScrapeAndStoreCall
  \/ StoreRecord(QuestionData)
  \/ ScrapeAndStoreReturn

Spec == Init /\ [][Next]_vars

\* the batch store alone, over three links
NextWide ==
  \/ BatchCall
  \/ BatchRecord(WideData)
  \/ BatchReturn

SpecWide == Init /\ [][NextWide]_vars

\* creates, batches and deletes in any order
NextDelete ==
  \/ CreateBounded
  \/ BatchCall
  \/ BatchRecordBounded
  \/ BatchReturn
  \/ DeleteQuestion
  \/ DeleteQuestionsByAuthor
  \/ DeleteOldQuestions

SpecDelete == Init /\ [][NextDelete]_vars

\* one call of scrape_questions, alone or under scrape_and_store
NextCollect ==
  \/ ScrapeQuestions
  \/ Bs4Page
  \/ SeleniumPage
  \/ ApiPage
  \/ CollectReturn
  \/ StoreScraped

SpecCollect == Init /\ [][NextCollect]_vars

\* one call of scrape_questions with the document or the API strategy on a
\* source that never runs out of pages; the call runs on undisturbed
NextEndless ==
  \/ ScrapeEndless
  \/ Bs4Page
  \/ ApiPage
  \/ CollectReturn

SpecEndless == Init /\ [][NextEndless]_vars /\ WF_vars(NextEndless)

\* one call of batch_scrape_and_store
NextBatchScrape ==
  \/ BatchScrapeAndStore
  \/ BatchNextMethod
  \/ Bs4Page
  \/ SeleniumPage
  \/ ApiPage
  \/ CollectReturn
  \/ StoreScraped

SpecBatchScrape == Init /\ [][NextBatchScrape]_vars

\* one call of scrape_stackoverflow_pages_parallel, its worker threads and
\* the calling thread interleaved
NextParallel ==
  \/ ParallelCall
  \/ WorkerStart
  \/ WorkerFinish
  \/ Collect
  \/ ParallelReturn

SpecParallel == Init /\ [][NextParallel]_vars

\* _clean_html_text applied to every markup of the bounded domain
InitNormalize ==
  /\ StoreInit
  /\ CollectIdle
  /\ ParallelIdle
  /\ html_text \in Markup
  /\ cleaned = <<>>
  /\ npc = "idle"

NextNormalize == CleanHtmlText

SpecNormalize == InitNormalize /\ [][NextNormalize]_vars

---------------------------------------------------------------------------
(* Properties *)

\* what the properties read off a store, independently of the code's lookups
Stored(d, link) == \E i \in 1..Len(d.questions) : d.questions[i].link = link
RowOf(d, link) ==
  d.questions[CHOOSE i \in 1..Len(d.questions) : d.questions[i].link = link]
AuthorRows(d, name) == {i \in 1..Len(d.authors) : d.authors[i].name = name}
TagRows(d, name) == {i \in 1..Len(d.tags) : d.tags[i].name = name}
JunctionRows(d, question_id) ==
  {i \in 1..Len(d.question_tags) :
     d.question_tags[i].question_id = question_id}
InBatch == fn = "create_questions_batch"
Count(status) ==
  Cardinality({i \in 1..Len(outcomes) : outcomes[i].status \in status})
\* the step processes one record, whose entry is the last of outcomes'
Processes == outcomes' # <<>> /\ (db' # db \/ outcomes' # outcomes)

\* C1: no two Question rows of the store have the same link, whatever
\* sequence of create_question, create_question_if_not_exists and batch
\* calls was made, failing calls and repeated links included.
C1_LinkUnique ==
  \A i, j \in 1..Len(db.questions) :
    db.questions[i].link = db.questions[j].link => i = j

\* a batch that names the same link twice: stored once, then found existing
C1_Witness ==
  /\ InBatch
  /\ Len(outcomes) = 2
  /\ outcomes[1].rec.link = outcomes[2].rec.link
  /\ outcomes[1].status = "ok"
  /\ outcomes[2].status = "existing"
  /\ Len(db.questions) = 2

C3_DuplicateIsNoOp ==
  [][(pc = "loop" /\ InBatch /\ Processes /\
      Stored(db, outcomes'[Len(outcomes')].rec.link)) =>
       /\ db' = db
       /\ outcomes'[Len(outcomes')].status = "existing"
       /\ skipped_count' = skipped_count + 1
       /\ created_ids' = created_ids
       /\ pc' = "loop"]_vars

\* a duplicate whose title differs from the stored one and whose author is
\* not in the store
C3_Witness ==
  /\ InBatch
  /\ outcomes # <<>>
  /\ Last(outcomes).status = "existing"
  /\ Stored(db, Last(outcomes).rec.link)
  /\ RowOf(db, Last(outcomes).rec.link).title # Last(outcomes).rec.title
  /\ AuthorRows(db, Last(outcomes).rec.author_name) = {}

\* C4 (as claimed): when a question is created from a record whose author is
\* already stored with a present reputation r1 and the record carries a
\* present, different reputation r2, there is afterwards exactly one author
\* row of that name and it holds r2.
C4_AuthorLastWriteWins ==
  [][(Processes /\ outcomes'[Len(outcomes')].status = "ok") =>
       LET rec == outcomes'[Len(outcomes')].rec
           before == AuthorRows(db, rec.author_name)
       IN (/\ before # {}
           /\ rec.author_reputation # None
           /\ \A i \in before :
                /\ db.authors[i].reputation # None
                /\ db.authors[i].reputation # rec.author_reputation) =>
            /\ Cardinality(AuthorRows(db', rec.author_name)) = 1
            /\ \A i \in AuthorRows(db', rec.author_name) :
                 db'.authors[i].reputation = rec.author_reputation]_vars

\* C5: no two Tag rows have the same name, and a created question is linked
\* to the one row of each tag name its record lists.
C5_TagReuse ==
  /\ \A i, j \in 1..Len(db.tags) : db.tags[i].name = db.tags[j].name => i = j
  /\ \A k \in 1..Len(db.question_tags) :
       \E i \in 1..Len(db.tags) : db.tags[i].id = db.question_tags[k].tag_id
  /\ \A k \in 1..Len(outcomes) :
       outcomes[k].status = "ok" =>
         \A n \in 1..Len(outcomes[k].rec.tags) :
           \E i \in TagRows(db, outcomes[k].rec.tags[n]) :
             [question_id |-> outcomes[k].id, tag_id |-> db.tags[i].id]
               \in Range(db.question_tags)

\* two questions share one tag row
C5_Witness ==
  \E k, m \in 1..Len(db.question_tags) :
    /\ db.question_tags[k].tag_id = db.question_tags[m].tag_id
    /\ db.question_tags[k].question_id # db.question_tags[m].question_id
    /\ Len(db.tags) = 2

HasRepeat(tag_list) ==
  \E i, j \in 1..Len(tag_list) : i # j /\ tag_list[i] = tag_list[j]

\* C6: each (question, tag) pair is in question_tags at most once, and a
\* record that lists a tag twice is stored without failing on the repeat.
C6_JunctionIsSet ==
  /\ \A i, j \in 1..Len(db.question_tags) :
       db.question_tags[i] = db.question_tags[j] => i = j
  /\ \A k \in 1..Len(outcomes) :
       (HasRepeat(outcomes[k].rec.tags) /\ ~outcomes[k].faulted) =>
         outcomes[k].status # "Exception"

\* a question created from a record that lists tag x twice has one pair
C6_Witness ==
  /\ outcomes # <<>>
  /\ Last(outcomes).status = "ok"
  /\ Last(outcomes).rec.tags = <<"x", "x">>
  /\ Cardinality(JunctionRows(db, Last(outcomes).id)) = 1

\* C7: a record whose writes fail after the link lookup leaves the store as
\* it was before the record: nothing of it remains and every earlier
\* committed write is kept.
C7_RecordAtomic ==
  [][(Processes /\ outcomes'[Len(outcomes')].status = "Exception") =>
       db' = db]_vars

\* the second record of a batch failed after the first was committed; it
\* carried a new reputation for the stored author
C7_Witness ==
  /\ InBatch
  /\ Len(outcomes) = 2
  /\ outcomes[1].status = "ok"
  /\ outcomes[2].status = "Exception"
  /\ outcomes[2].faulted
  /\ Stored(db, outcomes[1].rec.link)
  /\ outcomes[2].rec.author_reputation = 200
  /\ \E i \in AuthorRows(db, outcomes[2].rec.author_name) :
       db.authors[i].reputation = 100

\* C8: a record's persistence failure never leaves the batch loop: the loop
\* goes on with the next record and the call returns normally.
C8_BatchNeverRaises ==
  (fn \in {"create_questions_batch", "scrape_and_store"}) =>
     \/ pc = "loop" /\ result.kind = "none"
     \/ pc = "idle" /\ result.kind = "return"

\* the first record of a batch failed, the second was stored, the call
\* returned
C8_Witness ==
  /\ InBatch
  /\ pc = "idle"
  /\ result.kind = "return"
  /\ Len(outcomes) = 2
  /\ outcomes[1].status = "Exception"
  /\ outcomes[2].status = "ok"
  /\ result.ids = <<outcomes[2].id>>

\* C9 (as claimed): the summary of scrape_and_store counts as stored the
\* questions newly created and as duplicates the records whose link was
\* already present; a failed record is not counted as a duplicate.
C9_SummaryCounts ==
  (fn = "scrape_and_store" /\ pc = "idle" /\ result.success) =>
    /\ result.stored_count = Count({"ok"})
    /\ result.duplicates_skipped = Count({"existing", "ValueError"})

\* the ids of the records that were created, in the order of the list
RECURSIVE CreatedIds(_)
CreatedIds(os) ==
  IF os = <<>> THEN <<>>
  ELSE IF Head(os).status = "ok"
       THEN <<Head(os).id>> \o CreatedIds(Tail(os))
       ELSE CreatedIds(Tail(os))

\* the i-th record's link was in the store when the record was processed:
\* a row holds it that no record from the i-th on created
StoredBefore(i) ==
  \E q \in 1..Len(db.questions) :
    /\ db.questions[q].link = outcomes[i].rec.link
    /\ \A j \in i..Len(outcomes) :
         ~(outcomes[j].status = "ok" /\ outcomes[j].id = db.questions[q].id)

InEarlierRecord(i) ==
  \E j \in 1..(i - 1) : outcomes[j].rec.link = outcomes[i].rec.link

\* C10 (as claimed): a record of a batch contributes an id exactly if its
\* link was neither in the store nor in an earlier record of the batch and
\* its writes succeeded.
C10_ContributesIffUnseen ==
  InBatch =>
    \A i \in 1..Len(outcomes) :
      outcomes[i].status = "ok" <=>
        (~StoredBefore(i) /\ ~InEarlierRecord(i) /\ ~outcomes[i].faulted)

\* C10 (amended): created_ids holds, in the order of the list, one id per
\* record whose link was not in the store when it was processed (earlier
\* records of the batch that were stored included) and whose writes
\* succeeded; each id is the id of the row that holds the record's link.
C10_CreatedIds ==
  InBatch =>
    /\ created_ids = CreatedIds(outcomes)
    /\ pc = "idle" => result.ids = created_ids
    /\ \A i \in 1..Len(outcomes) :
         /\ outcomes[i].status = "ok" <=>
              (~StoredBefore(i) /\ ~outcomes[i].faulted)
         /\ outcomes[i].status = "ok" =>
              /\ Stored(db, outcomes[i].rec.link)
              /\ RowOf(db, outcomes[i].rec.link).id = outcomes[i].id

\* L1 and L2 are stored; a batch of L1 and L3 returns one id, L3's, and one
\* duplicate
C10_Witness ==
  /\ InBatch
  /\ pc = "idle"
  /\ [i \in 1..Len(db.questions) |-> db.questions[i].link]
       = <<"L1", "L2", "L3">>
  /\ [i \in 1..Len(outcomes) |-> outcomes[i].rec.link] = <<"L1", "L3">>
  /\ result.ids = <<RowOf(db, "L3").id>>
  /\ result.duplicates_skipped = 1
  /\ Cardinality(JunctionRows(db, RowOf(db, "L2").id)) = 2

---------------------------------------------------------------------------
(* Properties of the collector *)

Collected == cpc \in {"done", "stored"}
ValidMethod == method \in Methods

\* a source ends at its first failed or empty page
EndsAt(src, p) == PageAt(src, p).status # "ok" \/ PageAt(src, p).items = <<>>

\* the pages that supply records to strategy m: those before the end of the
\* source and, for the API, up to the first answer that announces no more
SupplyingPages(m, src) ==
  {p \in 1..Len(src) :
     /\ \A q \in 1..p : ~EndsAt(src, q)
     /\ m = "api" => \A q \in 1..(p - 1) : src[q].has_more}

\* the items of a page that can give a record: the browser strategy has no
\* record for an item it cannot read
Yield(m, pg) ==
  Cardinality({i \in 1..Len(pg.items) :
                 m = "selenium" => pg.items[i] # "notitle"})

RECURSIVE SumYield(_, _, _)
SumYield(m, src, P) ==
  IF P = {} THEN 0
  ELSE LET p == CHOOSE q \in P : TRUE
       IN Yield(m, src[p]) + SumYield(m, src, P \ {p})

\* the number of records the source can supply to strategy m
Supply(m, src) == SumYield(m, src, SupplyingPages(m, src))

\* C11: whichever strategy runs and whatever num_questions >= 0 is asked for,
\* the collector returns at most num_questions records; it returns exactly
\* that many when the source can supply them (and then it does not raise),
\* and when it returns fewer it returns all the source could supply before
\* it was exhausted or a fetch failed.
C11_CollectorCap ==
  ValidMethod =>
    /\ Collected =>
         /\ Len(scraped) <= num_questions
         /\ Supply(method, source) >= num_questions
              => Len(scraped) = num_questions
         /\ Len(scraped) < num_questions
              => Len(scraped) = Supply(method, source)
    /\ cpc = "raised" => Supply(method, source) < num_questions

\* the target is reached in the middle of the second page of a source that
\* had more to give
C11_Witness ==
  /\ Collected
  /\ ValidMethod
  /\ num_questions = MaxTarget
  /\ Len(scraped) = MaxTarget
  /\ Supply(method, source) > MaxTarget
  /\ Len(fetched) = 2
  /\ Len(source[2].items) = 2

AllEmpty(src) == \A p \in 1..Len(src) : src[p] = EmptyPage

\* C12: when every page of the source holds no question item, each of the
\* three strategies ends the collection after the first page with an empty
\* list: it asks for no second page and it raises nothing.
C12_EmptySourceReturnsEmpty ==
  (ValidMethod /\ AllEmpty(source)) =>
    /\ cpc # "raised"
    /\ Len(fetched) <= 1
    /\ Collected => scraped = <<>>

FailedFetches ==
  {j \in 1..Len(fetched) : PageAt(source, fetched[j]).status = "fail"}

RECURSIVE SumBefore(_, _, _)
SumBefore(m, src, k) ==
  IF k <= 1 THEN 0
  ELSE Yield(m, src[k - 1]) + SumBefore(m, src, k - 1)

\* C13: in each strategy, once the fetch of list page k has failed, the pages
\* requested are 1..k and no other, nothing is raised to the caller, and the
\* list returned holds the records of the pages before k.
C13_FailOpen ==
  (ValidMethod /\ FailedFetches # {}) =>
    /\ fetched = [j \in 1..Len(fetched) |-> j]
    /\ FailedFetches = {Len(fetched)}
    /\ cpc # "raised"
    /\ Collected => Len(scraped) = SumBefore(method, source, Len(fetched))

\* C14: a call with a method name that is none of the three strategies ends
\* with ValueError, and by then no page was fetched, no browser session was
\* opened and nothing was written to the store.
C14_UnknownMethodRaises ==
  (cpc # "idle" /\ ~ValidMethod) =>
    /\ cpc = "raised"
    /\ error = "ValueError"
    /\ fetched = <<>>
    /\ driver = "none"
    /\ db = EmptyDB

\* scrape_and_store was called with an unknown method over a source that has
\* records to give
C14_Witness ==
  /\ method = "invalid_method"
  /\ entry = "scrape_and_store"
  /\ cpc = "raised"
  /\ Supply("beautifulsoup", source) > 0
  /\ num_questions > 0

\* the records of the items of page p, in the order of the page
RECURSIVE PageRecords(_, _, _, _)
PageRecords(m, items, p, i) ==
  IF i > Len(items) THEN <<>>
  ELSE Extract(m, items[i], p, i) \o PageRecords(m, items, p, i + 1)

\* the records of pages p, p + 1, ..., one page after the other
RECURSIVE Concatenation(_, _, _)
Concatenation(m, src, p) ==
  IF p > Len(src) THEN <<>>
  ELSE PageRecords(m, src[p].items, p, 1) \o Concatenation(m, src, p + 1)

IsPrefix(s, t) == Len(s) <= Len(t) /\ s = SubSeq(t, 1, Len(s))

\* C17: in a sequential run of any strategy the list returned is a prefix of
\* the records of page 1, then those of page 2, and so on, each page's records
\* in the order of its items.
C17_PagesInOrder ==
  (ValidMethod /\ Collected) =>
    IsPrefix(scraped, Concatenation(method, source, 1))

\* three records were returned, from two pages
C17_Witness ==
  /\ Collected
  /\ ValidMethod
  /\ Len(scraped) = 3
  /\ scraped[1].title = TitleAt(1, 1)
  /\ scraped[2].title = TitleAt(1, 2)
  /\ scraped[3].title = TitleAt(2, 1)

\* the items of the pages requested so far, in the order they were read
RECURSIVE RequestedItems(_)
RequestedItems(j) ==
  IF j > Len(fetched) THEN <<>>
  ELSE PageAt(source, fetched[j]).items \o RequestedItems(j + 1)

\* C20: in each strategy every item read before the target was reached gave
\* a record: one with the title "No Title" when the item has no title, one
\* with the empty link when the item has no link.
C20_SentinelPolicy ==
  (ValidMethod /\ Collected) =>
    LET items == RequestedItems(1)
    IN /\ Len(questions_data) = Min({num_questions, Len(items)})
       /\ \A k \in 1..Len(questions_data) :
            /\ items[k] = "notitle" => questions_data[k].title = NoTitle
            /\ items[k] = "nohref" => questions_data[k].link = ""

\* the list page requested last
LastFetched == PageAt(source, Last(fetched))

\* the loop has something to stop for: the target is reached, the page
\* requested last failed or was empty, or the API announced no more
StopCondition ==
  /\ cpc # "idle"
  /\ \/ ~NeedMore(questions_data, num_questions)
     \/ /\ fetched # <<>>
        /\ \/ LastFetched.status # "ok"
           \/ LastFetched.items = <<>>
           \/ method = "api" /\ ~LastFetched.has_more

StopStep ==
  /\ Len(fetched') > Len(fetched) =>
       /\ NeedMore(questions_data, num_questions)
       /\ fetched # <<>> =>
            /\ LastFetched.status = "ok"
            /\ LastFetched.items # <<>>
            /\ method = "api" => LastFetched.has_more
  /\ StopCondition => (fetched' = fetched /\ details' = details)
  /\ Len(details') <= 2 * num_questions'

\* C21: a further list page is requested only while the count is below the
\* target, the page before it gave at least one item and, for the API, its
\* answer carried has_more; once a stop condition holds no list page and no
\* detail page is requested any more, and detail pages are requested for no
\* more items than the target.
C21_StopConditions == [][StopStep]_vars

\* an API run stopped by has_more = false, short of its target, with a
\* further non-empty page in the source
C21_Witness ==
  /\ method = "api"
  /\ cpc = "done"
  /\ fetched = <<1>>
  /\ ~source[1].has_more
  /\ Len(questions_data) < num_questions
  /\ Len(source) >= 2
  /\ source[2].items # <<>>

\* C24: in the document strategy an item whose question page cannot be had,
\* whether the request fails or is answered with a non-2xx status, gives a
\* record with its title and link, an empty text and no reputation.
C24_DetailFailureDegrades ==
  (method = "beautifulsoup" /\ cpc \in {"loop", "exit", "done", "stored"}) =>
    LET items == RequestedItems(1)
    IN \A k \in 1..Len(questions_data) :
         items[k] \in {"broken", "errorpage"} =>
           /\ questions_data[k].title # NoTitle
           /\ questions_data[k].link # ""
           /\ questions_data[k].text = ""
           /\ questions_data[k].author_reputation = None

\* C25: in the browser strategy, once the items of a list page are read the
\* browser is on that list page again, whatever became of the visits to the
\* question pages.
C25_BrowserBackOnList ==
  (method = "selenium" /\ fetched # <<>>
     /\ cpc \in {"loop", "exit", "done", "stored"}) =>
    current_url = ListUrl(Last(fetched))

\* C26: no question row has the empty string as its link.
C26_NoEmptyLinkRow ==
  \A i \in 1..Len(db.questions) : db.questions[i].link # ""

\* C28: a run of the browser strategy has opened one session; the session is
\* open while the loop runs and closed once when the run has returned or
\* raised.  The other strategies open none.
C28_OneSession ==
  /\ (scrape_questions(method) = "selenium" /\ cpc \in {"loop", "exit"}) =>
       sessions = [opened |-> 1, closed |-> 0]
  /\ (scrape_questions(method) = "selenium"
        /\ cpc \in {"done", "stored", "raised"}) =>
       sessions = [opened |-> 1, closed |-> 1]
  /\ scrape_questions(method) # "selenium" => sessions = NoSessions

\* a browser run that raised on the wait of its third page
C28_Witness ==
  /\ method = "selenium"
  /\ cpc = "raised"
  /\ error = "TimeoutException"
  /\ Len(fetched) = 3
  /\ driver = "quit"
  /\ sessions.closed = 1

\* the requested pages that were answered and held at least one item
Productive ==
  {j \in 1..Len(fetched) :
     /\ PageAt(source, fetched[j]).status = "ok"
     /\ PageAt(source, fetched[j]).items # <<>>}

ProgressBound ==
  cyclic =>
    /\ Len(questions_data) >= Cardinality(Productive)
    /\ Len(fetched) <= num_questions

\* C30: in the document and the API loop every page that was answered and
\* held an item added at least one record, a run with target n requests at
\* most n list pages, and the run returns, also on a source whose pages
\* never run out.
C30_ProgressBound == []ProgressBound /\ <>(cpc = "done")

\* a run that took three pages from a source made of one page that comes
\* again and again
C30_Witness ==
  /\ cyclic
  /\ cpc = "done"
  /\ Len(source) = 1
  /\ fetched = <<1, 2, 3>>
  /\ Len(scraped) = num_questions
  /\ num_questions = MaxTarget

\* C27: when batch_scrape_and_store signals an unknown method name, no list
\* page was requested and nothing was written to the store for any of the
\* methods of the list.
C27_ConfigErrorBeforeWork ==
  (entry = "batch_scrape_and_store" /\ error = "ValueError") =>
    /\ fetched = <<>>
    /\ db = EmptyDB

\* every junction row names a question and a tag that are there, and every
\* question an author that is there, or none
ReferentialIntegrity(d) ==
  /\ \A r \in Range(d.question_tags) :
       /\ \E q \in Range(d.questions) : q.id = r.question_id
       /\ \E t \in Range(d.tags) : t.id = r.tag_id
  /\ \A q \in Range(d.questions) :
       \/ q.author_id = None
       \/ \E a \in Range(d.authors) : a.id = q.author_id

QuestionIds(d) == {q.id : q \in Range(d.questions)}

IntegrityStep ==
  /\ ReferentialIntegrity(db)
  /\ ReferentialIntegrity(db')
  /\ QuestionIds(db) \ QuestionIds(db') # {} =>
       /\ db'.authors = db.authors
       /\ db'.tags = db.tags
       /\ \A r \in Range(db'.question_tags) :
            r.question_id \in QuestionIds(db')
       /\ \A r \in Range(db.question_tags) :
            r.question_id \in QuestionIds(db') =>
              r \in Range(db'.question_tags)

\* C29: over creates, batches, failed creates and the three deletes, every
\* junction row names an existing question and an existing tag and every
\* question an existing author or none; a step that removes questions
\* removes their junction rows, keeps the others, and leaves authors and
\* tags as they were.
C29_ReferentialIntegrity == [][IntegrityStep]_vars

\* two questions were created, the one with tags was deleted by its id
C29_Witness ==
  /\ fn = "delete_question"
  /\ result.kind = "return"
  /\ autoinc.questions = 3
  /\ Len(db.questions) = 1
  /\ Len(db.tags) = 2
  /\ db.question_tags = <<>>
  /\ Len(db.authors) = 2

---------------------------------------------------------------------------
(* Properties of the parallel page fetch *)

\* where a record of the result comes from
Origin(rec) ==
  CHOOSE o \in (1..max_pages) \X (1..2) : rec.question = QuestionAt(o[1], o[2])

Occurrences(p, i) ==
  {k \in 1..Len(all_questions) : all_questions[k].question = QuestionAt(p, i)}

\* C15: when the parallel fetch returns, every task has completed, and the
\* result holds each record of each page that was fetched successfully
\* exactly once, and nothing else.
C15_AllRecordsOnce ==
  ppc = "returned" =>
    /\ \A p \in 1..max_pages : futures[p].state = "finished"
    /\ \A p \in 1..max_pages :
         web[p].status = "ok" =>
           \A i \in 1..Len(web[p].items) : Cardinality(Occurrences(p, i)) = 1
    /\ \A k \in 1..Len(all_questions) :
         \E p \in 1..max_pages :
           /\ web[p].status = "ok"
           /\ \E i \in 1..Len(web[p].items) : k \in Occurrences(p, i)

\* C16: at every moment of a parallel run the records of one page stand in
\* the result as one block, in the order of the page: between two records of
\* a page there are only records of that page, and the earlier item comes
\* first.
C16_PageBlocks ==
  \A j, k \in 1..Len(all_questions) :
    (j < k /\ Origin(all_questions[j])[1] = Origin(all_questions[k])[1]) =>
      /\ Origin(all_questions[j])[2] < Origin(all_questions[k])[2]
      /\ \A l \in j..k :
           Origin(all_questions[l])[1] = Origin(all_questions[j])[1]

\* two pages of two records each were fetched by two workers, and the second
\* page was collected first
C16_Witness ==
  /\ ppc = "returned"
  /\ max_workers = 2
  /\ Len(all_questions) = 4
  /\ Origin(all_questions[1]) = <<2, 1>>
  /\ Origin(all_questions[3]) = <<1, 1>>

Readable(pg) ==
  pg.status = "ok" /\ \A i \in 1..Len(pg.items) : pg.items[i] \notin Unreadable

\* C22: when the parallel fetch returns, a page whose fetch failed has given
\* the empty list and not an exception, and of every other page that was
\* fetched and read, each record is in the result.
C22_FetchFailureIsEmptyPage ==
  ppc = "returned" =>
    \A p \in 1..max_pages :
      web[p].status = "fail" =>
        /\ ~futures[p].raised
        /\ futures[p].results = <<>>
        /\ \A q \in 1..max_pages :
             Readable(web[q]) =>
               \A i \in 1..Len(web[q].items) : Occurrences(q, i) # {}

\* the fetch of page 1 failed and the two records of page 2 were returned
C22_Witness ==
  /\ ppc = "returned"
  /\ max_pages = 2
  /\ web[1].status = "fail"
  /\ Len(web[2].items) = 2
  /\ Readable(web[2])
  /\ Len(all_questions) = 2

\* C23: when the parallel fetch returns, every item of a fetched page that
\* can be read has its record in the result, whatever the other items of the
\* page are: an item with an unreadable datetime or without href costs at
\* most its own record.
C23_ParseFailureIsLocal ==
  ppc = "returned" =>
    \A p \in 1..max_pages :
      web[p].status = "ok" =>
        \A i \in 1..Len(web[p].items) :
          web[p].items[i] \notin Unreadable => Occurrences(p, i) # {}

---------------------------------------------------------------------------
(* Properties of the text normalizer *)

Occurs(sub, text) ==
  \E i \in 0..(Len(text) - Len(sub)) :
    /\ SubSeq(text, i + 1, i + Len(sub)) = sub
    /\ i = 0 \/ text[i] = "\n"
    /\ i + Len(sub) = Len(text) \/ text[i + Len(sub) + 1] = "\n"

\* C18: for a markup that holds a code or pre block, the output holds a
\* fenced region for it: the opening and the closing fence each on a line
\* of its own, and between them the text of the block as it was written,
\* its spaces and line breaks included.
C18_FencedVerbatim ==
  npc = "done" =>
    \A i \in 1..Len(html_text.nodes) :
      html_text.nodes[i].tag \in {"code", "pre"} =>
        Occurs(<<Fence, "\n">> \o html_text.nodes[i].text \o <<"\n", Fence>>,
               cleaned)

\* the lines of a text that hold something other than whitespace
SolidLines(text) ==
  Cardinality({i \in 1..Len(text) :
                 /\ text[i] \notin Whitespace
                 /\ \A j \in 1..(i - 1) :
                      text[j] \notin Whitespace
                        => \E k \in (j + 1)..(i - 1) : text[k] = "\n"})

\* C19: the output of the normalizer has no two horizontal blanks in a row,
\* no more than one blank line in a row, no blank at either end, and it is
\* empty for an empty or absent input; the lines of a plain paragraph stay
\* the lines of the output.
C19_WhitespaceNormalized ==
  npc = "done" =>
    /\ \A i \in 1..(Len(cleaned) - 1) :
         ~(cleaned[i] \in {" ", "\t"} /\ cleaned[i + 1] \in {" ", "\t"})
    /\ \A i \in 1..(Len(cleaned) - 2) :
         ~(cleaned[i] = "\n" /\ cleaned[i + 1] = "\n"
           /\ cleaned[i + 2] = "\n")
    /\ cleaned # <<>> => /\ cleaned[1] \notin Whitespace
                         /\ cleaned[Len(cleaned)] \notin Whitespace
    /\ (html_text.absent \/ html_text.nodes = <<>>) => cleaned = <<>>
    /\ (Len(html_text.nodes) = 1 /\ html_text.nodes[1].tag = "p")
         => SolidLines(cleaned) = SolidLines(html_text.nodes[1].text)

====
